---- MODULE Spec2Model ----
(***************************************************************************)
(* Credit ledger and generation orchestrator of the Media AI Services Hub. *)
(*                                                                         *)
(* The ledger (CreditManager) is translated from                           *)
(* MEDIA_HUB_TECHNICAL_ARCHITECTURE.md, the tables from its SQL schema.    *)
(* Amounts are whole credits.  A database transaction                      *)
(* (async with self.db.transaction()) is one atomic step.  A call that     *)
(* raises leaves the tables as they were: its step changes nothing.        *)
(***************************************************************************)
EXTENDS Integers, Sequences, FiniteSets, TLC

\* ------------------------------------------------------------------ bounds
\* the largest amount a caller reserves
MaxAmount == 2
\* rows the two ledger tables hold together
MaxRows == 4
\* the last instant of the database clock
MaxTime == 1

\* generate_media calls made
MaxCalls == 2
\* jobs a caller hands to the queue manager directly
MaxJobs == 2
\* jobs the audio queue and the image queue admit
AudioCapacity == 1
ImageCapacity == 2
\* provider attempts a job may make
RetryLimit == 2

Users == {"u1", "u2"}
Amounts == 1..MaxAmount
\* the credit package a purchase adds: more than one reservation can take,
\* less than two of the largest
CreditPackages == {MaxAmount + 1}
MaxBalance == MaxAmount + 1
\* actual costs a caller may pass to confirm_transaction: below, equal to
\* and above any reserved amount
ActualCosts == 0..(MaxAmount + 1)
Ttls == 0..MaxTime
\* reservation_id of a row that references no reservation (NULL)
NoId == 0

VARIABLES
    balance,              \* user_credits.balance, per user
    reserved_balance,     \* user_credits.reserved_balance, per user
    credit_reservations,  \* table credit_reservations, row i has id i
    credit_transactions,  \* table credit_transactions
    now,                  \* NOW() of the database
    calls,                \* the generate_media calls and where each stands
    jobs,                 \* the queue manager's jobs, job i has id i
    queues,               \* QueueManager.job_queues: per media type the ids
                          \* of the waiting jobs, in order of arrival
    providers,            \* MediaServicesManager.providers, a list per type
    selection,            \* what the last _select_provider call returned
    score_call,           \* one _calculate_provider_score call: the values
                          \* it reads and the scores it computes
    endpoint,             \* POST /generate: the responses it has given and
                          \* the generations it has started
    mcp,                  \* the MCP billing flow: the user's credits and the
                          \* process_media_generation calls
    code_server,          \* the backend's code_servers entry of the sandbox
    iframe                \* a CodeServerIframe component: its state, its
                          \* requests in flight, its timers and its interval

ledgerVars == <<balance, reserved_balance, credit_reservations,
                credit_transactions>>
dbVars == <<balance, reserved_balance, credit_reservations,
            credit_transactions, now>>
schedVars == <<jobs, queues>>
orchVars == <<calls, jobs, queues>>
registryVars == <<providers, selection>>
ideVars == <<code_server, iframe>>
extVars == <<score_call, endpoint, mcp, code_server, iframe>>
vars == <<balance, reserved_balance, credit_reservations,
          credit_transactions, now, calls, jobs, queues, providers,
          selection, score_call, endpoint, mcp, code_server, iframe>>

\* ------------------------------------------------------------- helpers
RECURSIVE SumInts(_)
SumInts(s) == IF s = <<>> THEN 0 ELSE Head(s) + SumInts(Tail(s))

\* signed value of a credit_transactions row
TxSigned(t) == IF t.type = "credit" THEN t.amount ELSE 0 - t.amount

\* balance reconstructed from the transaction log of one user
LedgerSum(u) ==
    LET val(t) == IF t.user_id = u THEN TxSigned(t) ELSE 0
    IN  SumInts([i \in 1..Len(credit_transactions) |-> val(credit_transactions[i])])

\* sum of the amounts of the user's reservations in status reserved
ReservedSum(u) ==
    LET val(r) == IF r.user_id = u /\ r.status = "reserved" THEN r.amount ELSE 0
    IN  SumInts([i \in 1..Len(credit_reservations) |-> val(credit_reservations[i])])

\* both tables have room for one more row
RoomForRow == Len(credit_reservations) + Len(credit_transactions) < MaxRows

\* the ids a caller may pass: those of the rows and one that no row has
ReservationIds == 1..(Len(credit_reservations) + 1)

Exists(rid) == rid \in 1..Len(credit_reservations)

Terminal(st) == st \in {"confirmed", "cancelled", "expired"}

\* the debit rows of the log that reference reservation rid
DebitsOf(rid) ==
    {i \in 1..Len(credit_transactions) :
        /\ credit_transactions[i].type = "debit"
        /\ credit_transactions[i].reservation_id = rid}

\* CreditManager.get_user_balance: SELECT balance FROM user_credits
get_user_balance(u) == balance[u]

\* ------------------------------------------------------ ledger operations
\* CreditManager.reserve_credits(user_id, amount); raises
\* InsufficientCreditsError when the balance is below the amount
ReserveCredits(u, amt) ==
    /\ RoomForRow
    /\ IF get_user_balance(u) < amt
       THEN UNCHANGED dbVars
       ELSE /\ credit_reservations' = Append(credit_reservations,
                   [user_id |-> u, amount |-> amt, status |-> "reserved",
                    actual_amount |-> 0, created_at |-> now])
            /\ reserved_balance' = [reserved_balance EXCEPT ![u] = @ + amt]
            /\ UNCHANGED <<balance, credit_transactions, now>>

\* confirm_transaction that updates the balance and writes no log row
ConfirmTransaction_NoLog(rid, actual) ==
    /\ RoomForRow
    /\ Exists(rid)
    /\ LET r == credit_reservations[rid]
           u == r.user_id
       IN  /\ balance' = [balance EXCEPT ![u] = @ - actual]
           /\ reserved_balance' = [reserved_balance EXCEPT ![u] = @ - r.amount]
           /\ credit_reservations' = [credit_reservations EXCEPT
                  ![rid] = [@ EXCEPT !.status = "confirmed",
                                     !.actual_amount = actual]]
           /\ UNCHANGED <<credit_transactions, now>>

\* confirm_transaction that releases the actual cost, not the reserved amount
ConfirmTransaction_ReleaseActual(rid, actual) ==
    /\ RoomForRow
    /\ Exists(rid)
    /\ LET r == credit_reservations[rid]
           u == r.user_id
       IN  /\ balance' = [balance EXCEPT ![u] = @ - actual]
           /\ reserved_balance' = [reserved_balance EXCEPT ![u] = @ - actual]
           /\ credit_transactions' = Append(credit_transactions,
                  [user_id |-> u, amount |-> actual, type |-> "debit",
                   reservation_id |-> rid])
           /\ credit_reservations' = [credit_reservations EXCEPT
                  ![rid] = [@ EXCEPT !.status = "confirmed",
                                     !.actual_amount = actual]]
           /\ UNCHANGED now

\* CreditManager.confirm_transaction(reservation_id, actual_cost); raises
\* ReservationNotFoundError when no row has the id
ConfirmTransaction(rid, actual) ==
    /\ RoomForRow
    /\ IF ~Exists(rid)
       THEN UNCHANGED dbVars
       ELSE LET r == credit_reservations[rid]
                u == r.user_id
            IN  /\ balance' = [balance EXCEPT ![u] = @ - actual]
                /\ reserved_balance' =
                       [reserved_balance EXCEPT ![u] = @ - r.amount]
                /\ credit_transactions' = Append(credit_transactions,
                       [user_id |-> u, amount |-> actual, type |-> "debit",
                        reservation_id |-> rid])
                /\ credit_reservations' = [credit_reservations EXCEPT
                       ![rid] = [@ EXCEPT !.status = "confirmed",
                                          !.actual_amount = actual]]
                /\ UNCHANGED now

\* cancel_reservation that releases the amount whatever the status is
CancelReservation_NoStatusCheck(rid) ==
    /\ Exists(rid)
    /\ LET r == credit_reservations[rid]
           u == r.user_id
       IN  /\ reserved_balance' = [reserved_balance EXCEPT ![u] = @ - r.amount]
           /\ credit_reservations' = [credit_reservations EXCEPT
                  ![rid] = [@ EXCEPT !.status = "cancelled"]]
           /\ UNCHANGED <<balance, credit_transactions, now>>

\* CreditManager.cancel_reservation(reservation_id): releases the full
\* amount of a reservation in status reserved, a no-op on any other
CancelReservation(rid) ==
    IF ~Exists(rid)
    THEN UNCHANGED dbVars
    ELSE LET r == credit_reservations[rid]
             u == r.user_id
         IN  /\ IF r.status = "reserved"
                THEN /\ reserved_balance' =
                            [reserved_balance EXCEPT ![u] = @ - r.amount]
                     /\ credit_reservations' = [credit_reservations EXCEPT
                            ![rid] = [@ EXCEPT !.status = "cancelled"]]
                ELSE UNCHANGED <<reserved_balance, credit_reservations>>
             /\ UNCHANGED <<balance, credit_transactions, now>>

\* CreditManager.add_credits(user_id, amount, source): applies a settled
\* purchase, as a credit row of the log
AddCredits(u, amt) ==
    /\ RoomForRow
    /\ balance[u] + amt <= MaxBalance
    /\ balance' = [balance EXCEPT ![u] = @ + amt]
    /\ credit_transactions' = Append(credit_transactions,
           [user_id |-> u, amount |-> amt, type |-> "credit",
            reservation_id |-> NoId])
    /\ UNCHANGED <<reserved_balance, credit_reservations, now>>

\* a sweep that takes every reservation older than ttl, whatever its status
Stale_AnyStatus(r, ttl) == now - r.created_at > ttl

\* a reservation the sweep expireStale(ttl) ends
Stale(r, ttl) == r.status = "reserved" /\ now - r.created_at > ttl

\* Ledger.expireStale(ttl)
ExpireStale(ttl) ==
    LET released(u) ==
            LET val(r) == IF r.user_id = u /\ Stale(r, ttl) THEN r.amount ELSE 0
            IN  SumInts([i \in 1..Len(credit_reservations) |-> val(credit_reservations[i])])
    IN  /\ credit_reservations' =
               [i \in 1..Len(credit_reservations) |->
                   IF Stale(credit_reservations[i], ttl)
                   THEN [credit_reservations[i] EXCEPT !.status = "expired"]
                   ELSE credit_reservations[i]]
        /\ reserved_balance' =
               [u \in Users |-> reserved_balance[u] - released(u)]
        /\ UNCHANGED <<balance, credit_transactions, now>>

\* the database clock advances
Tick ==
    /\ now < MaxTime
    /\ now' = now + 1
    /\ UNCHANGED ledgerVars

\* ------------------------------------------------------ provider registry
\* MediaType, cut to two media types
MediaTypes == {"audio", "image"}
\* the provider classes of the model: the audio providers and the first
\* image provider of _initialize_providers
Providers == {"ElevenLabs", "Murf", "AzureSpeech", "Dalle"}
NoProvider == "none"
\* ProviderStatus
Statuses == {"active", "maintenance", "disabled"}

\* a provider object: BaseProvider.__init__ sets status ACTIVE and
\* quality_rating 0.0, ElevenLabsProvider.__init__ sets quality_rating 0.95
\* (in hundredths)
Provider(p) ==
    [name |-> p, status |-> "active",
     quality_rating |-> IF p = "ElevenLabs" THEN 95 ELSE 0,
     current_load |-> 0]

\* MediaServicesManager._initialize_providers
InitialProviders ==
    [mt \in MediaTypes |->
        IF mt = "audio"
        THEN <<Provider("ElevenLabs"), Provider("Murf"),
               Provider("AzureSpeech")>>
        ELSE <<Provider("Dalle")>>]

\* the names of the providers registered for each media type, in order
ProvidersOf ==
    [mt \in MediaTypes |->
        [i \in 1..Len(providers[mt]) |-> providers[mt][i].name]]

\* the provider object of a name
ProviderRecord(p) ==
    CHOOSE r \in UNION {{providers[mt][i] : i \in 1..Len(providers[mt])} :
                           mt \in MediaTypes} : r.name = p

\* BaseProvider.status
ProviderStatus == [p \in Providers |-> ProviderRecord(p).status]

\* BaseProvider.quality_rating, in hundredths
QualityRating == [p \in Providers |-> ProviderRecord(p).quality_rating]

\* BaseProvider.name, the provider's id, as its place in the alphabet
ProviderId == [p \in Providers |->
                  IF p = "AzureSpeech" THEN 1 ELSE IF p = "Dalle" THEN 2
                  ELSE IF p = "ElevenLabs" THEN 3 ELSE 4]

\* provider.estimate_cost(request): the provider's price of a request
EstimateCost(p) == IF p = "ElevenLabs" THEN MaxAmount ELSE 1

\* _get_market_average_cost when no market data exists
NoMarketData == 0

\* max(0, min(1, x)), in hundredths
Clamp(x) == IF x < 0 THEN 0 ELSE IF x > 100 THEN 100 ELSE x

\* get_cost_efficiency_score that returns efficiency + 0.5 as it is
CostEfficiency_NoClamp(estimated_cost, market_average) ==
    IF market_average = 0
    THEN 50
    ELSE (100 - (100 * estimated_cost) \div market_average) + 50

\* BaseProvider.get_cost_efficiency_score for an estimate and a market
\* average, in hundredths: 0.5 without market data, else
\* 1 - estimated_cost / market_average + 0.5 cut to [0, 1]
CostEfficiency(estimated_cost, market_average) ==
    IF market_average = 0
    THEN 50
    ELSE Clamp((100 - (100 * estimated_cost) \div market_average) + 50)

\* BaseProvider.get_cost_efficiency_score without market data, in hundredths
CostEfficiencyScore(p) == CostEfficiency(EstimateCost(p), NoMarketData)

\* BaseProvider.get_speed_score, in hundredths
SpeedScore(p) == 50

\* BaseProvider.get_current_load_score, in hundredths: the inverse of the
\* provider's current load
LoadScore(p) == 100 - ProviderRecord(p).current_load

\* the weighted sum of _calculate_provider_score, in thousandths, of four
\* scores in hundredths
TotalScore(cost_score, quality_score, speed_score, load_score) ==
    cost_score * 3 + quality_score * 4 + speed_score * 2 + load_score * 1

\* MediaServicesManager._calculate_provider_score, in thousandths
CalculateProviderScore(p) ==
    TotalScore(CostEfficiencyScore(p), QualityRating[p], SpeedScore(p),
               LoadScore(p))

\* _select_provider without the filter on the status
SelectProvider_AnyStatus(mt, excluded) ==
    LET lst == ProvidersOf[mt]
        avail == {i \in 1..Len(lst) : lst[i] \notin excluded}
        best == {i \in avail :
                     \A k \in avail : CalculateProviderScore(lst[k])
                                         <= CalculateProviderScore(lst[i])}
    IN  IF avail = {} THEN NoProvider
        ELSE lst[CHOOSE i \in best : \A k \in best : i <= k]

\* MediaServicesManager._select_provider over the providers of the media
\* type that are not in `excluded`: list.sort is stable, so of the providers
\* with the highest score the first of the list is returned
SelectProvider(mt, excluded) ==
    LET lst == ProvidersOf[mt]
        avail == {i \in 1..Len(lst) :
                     ProviderStatus[lst[i]] = "active" /\ lst[i] \notin excluded}
        best == {i \in avail :
                     \A k \in avail : CalculateProviderScore(lst[k])
                                         <= CalculateProviderScore(lst[i])}
    IN  IF avail = {} THEN NoProvider
        ELSE lst[CHOOSE i \in best : \A k \in best : i <= k]

\* what _select_provider has returned when no call was made yet
NoSelection == [media_type |-> "none", provider |-> NoProvider]

\* a caller invokes _select_provider(request) for a request of media type
\* mt; the provider NoProvider stands for NoProvidersAvailableError
Select(mt) ==
    /\ selection' = [media_type |-> mt, provider |-> SelectProvider(mt, {})]
    /\ UNCHANGED providers

\* the registries a select call may meet: the first two audio providers in
\* both orders of registration, with every status and with ratings and loads
\* that make scores differ and scores tie; the third and the image provider
\* with every status
Qualities == {0, 10, 95}
Loads == {0, 40}
ProviderStates(p) ==
    {[name |-> p, status |-> st, quality_rating |-> q, current_load |-> l] :
        st \in Statuses, q \in Qualities, l \in Loads}
Registries ==
    {[mt \in MediaTypes |->
         IF mt = "image" THEN <<d>>
         ELSE IF first = "ElevenLabs" THEN <<a, b, z>> ELSE <<b, a, z>>] :
        a \in ProviderStates("ElevenLabs"), b \in ProviderStates("Murf"),
        z \in {[Provider("AzureSpeech") EXCEPT !.status = st] :
                  st \in Statuses},
        d \in {[Provider("Dalle") EXCEPT !.status = st] : st \in Statuses},
        first \in {"ElevenLabs", "Murf"}}

\* the costs a provider's response may state for a request it estimated at
\* est: less, the same, more
ResponseCosts(est) == {est - 1, est, est + 1}

\* ------------------------------------------------------ queue manager
\* MediaRequest.priority: the default and one above it; the larger number is
\* the higher priority
Priorities == {1, 2}

\* the capacity configured for each media type's queue
QueueCapacity ==
    [mt \in MediaTypes |-> IF mt = "audio" THEN AudioCapacity ELSE ImageCapacity]

\* the jobs of a media type that wait in its queue
Queued(mt) == {queues[mt][i] : i \in 1..Len(queues[mt])}

QueueFull(mt) == Len(queues[mt]) >= QueueCapacity[mt]

\* the queue without job j
Without(q, j) == SelectSeq(q, LAMBDA k : k # j)

\* add_job that does not look at the capacity
Enqueue_NoCapacity(c, u, mt, prio, p, est, rid) ==
    /\ jobs' = Append(jobs,
           [call |-> c, user |-> u, media_type |-> mt,
            priority |-> prio, provider |-> p, estimated_cost |-> est,
            state |-> "QUEUED", attempt |-> 0, timeouts |-> 0,
            failed |-> {}, error |-> "none", reservation_id |-> rid,
            actual_cost |-> 0, cancel_requested |-> FALSE])
    /\ queues' = [queues EXCEPT ![mt] = Append(@, Len(jobs) + 1)]

\* QueueManager.add_job(request, provider) for a request of user u, media
\* type mt and priority prio, made by generate_media call c (NoId: by another
\* caller), with the reservation rid: the job joins the end of its queue;
\* on a full queue the call raises QueueFull and changes nothing
Enqueue(c, u, mt, prio, p, est, rid) ==
    IF QueueFull(mt)
    THEN UNCHANGED schedVars
    ELSE /\ jobs' = Append(jobs,
                [call |-> c, user |-> u, media_type |-> mt,
                 priority |-> prio, provider |-> p, estimated_cost |-> est,
                 state |-> "QUEUED", attempt |-> 0, timeouts |-> 0,
                 failed |-> {}, error |-> "none", reservation_id |-> rid,
                 actual_cost |-> 0, cancel_requested |-> FALSE])
         /\ queues' = [queues EXCEPT ![mt] = Append(@, Len(jobs) + 1)]

\* get_next_job that takes the job that has waited longest, whatever its
\* priority
NextJob_Oldest(mt) == queues[mt][1]

\* QueueManager.get_next_job(media_type): of the waiting jobs the one of the
\* highest priority, of those the one that has waited longest
NextJob(mt) ==
    LET q == queues[mt]
        best == {i \in 1..Len(q) :
                    \A k \in 1..Len(q) :
                        jobs[q[k]].priority <= jobs[q[i]].priority}
    IN  q[CHOOSE i \in best : \A k \in best : i <= k]

\* dispatch that hands the job to the provider at once
StartJob_SkipReserving(j) ==
    /\ j \in 1..Len(jobs)
    /\ j \in Queued(jobs[j].media_type)
    /\ j = NextJob(jobs[j].media_type)
    /\ jobs' = [jobs EXCEPT ![j].state = "DISPATCHED", ![j].attempt = @ + 1]
    /\ queues' = [queues EXCEPT ![jobs[j].media_type] = Without(@, j)]
    /\ UNCHANGED <<dbVars, calls>>

\* dispatch pops the next job of a queue
StartJob(j) ==
    /\ j \in 1..Len(jobs)
    /\ j \in Queued(jobs[j].media_type)
    /\ j = NextJob(jobs[j].media_type)
    /\ jobs' = [jobs EXCEPT ![j].state = "RESERVING"]
    /\ queues' = [queues EXCEPT ![jobs[j].media_type] = Without(@, j)]
    /\ UNCHANGED <<dbVars, calls>>

\* the job holds its reservation and goes to the provider
DispatchJob(j) ==
    /\ j \in 1..Len(jobs)
    /\ jobs[j].state = "RESERVING"
    /\ jobs' = [jobs EXCEPT ![j].state = "DISPATCHED",
                            ![j].attempt = @ + 1]
    /\ UNCHANGED <<dbVars, calls, queues>>

\* provider.generate(request) answers with a response and its cost; a
\* cancellation asked for in flight is over with the answer
ProviderSucceeds(j, cost) ==
    /\ j \in 1..Len(jobs)
    /\ jobs[j].state = "DISPATCHED"
    /\ jobs' = [jobs EXCEPT ![j].state = "COMPLETED", ![j].actual_cost = cost,
                            ![j].cancel_requested = FALSE]
    /\ UNCHANGED <<dbVars, calls, queues>>

\* a provider call on a session without a timeout: a provider that does not
\* answer is waited for
ProviderFails_NoTimeout(j, timeout) ==
    /\ FALSE
    /\ UNCHANGED vars

\* provider.generate(request) runs into the session's timeout or a transient
\* error (timeout = TRUE), or raises an error that no retry cures: the
\* attempt's reservation is cancelled and the job is FAILED, or CANCELLED
\* when its cancellation was asked for while the call was in flight
ProviderFails(j, timeout) ==
    /\ j \in 1..Len(jobs)
    /\ jobs[j].state = "DISPATCHED"
    /\ CancelReservation(jobs[j].reservation_id)
    /\ jobs' = IF jobs[j].cancel_requested
               THEN [jobs EXCEPT ![j].state = "CANCELLED",
                                 ![j].error = "Cancelled",
                                 ![j].cancel_requested = FALSE]
               ELSE [jobs EXCEPT
                        ![j].state = "FAILED",
                        ![j].failed = @ \cup {jobs[j].provider},
                        ![j].timeouts = IF timeout THEN @ + 1 ELSE @,
                        ![j].error = IF timeout THEN "ProviderTimeout"
                                     ELSE "ProviderError"]
    /\ UNCHANGED <<calls, queues>>

\* the retry path without the attempt budget
CanRetry_NoBudget(j) ==
    /\ jobs[j].state = "FAILED"
    /\ jobs[j].error = "ProviderTimeout"
    /\ SelectProvider(jobs[j].media_type, jobs[j].failed) # NoProvider

\* a FAILED job that the retry path takes up again: its last attempt timed
\* out, attempts remain and a provider that has not failed for it is active
CanRetry(j) ==
    /\ jobs[j].state = "FAILED"
    /\ jobs[j].error = "ProviderTimeout"
    /\ jobs[j].attempt < RetryLimit
    /\ SelectProvider(jobs[j].media_type, jobs[j].failed) # NoProvider

\* the retry that runs the selector again as for a new request
RetryJob_SameSelector(j) ==
    /\ j \in 1..Len(jobs)
    /\ CanRetry(j)
    /\ IF QueueFull(jobs[j].media_type)
       THEN /\ jobs' = [jobs EXCEPT ![j].error = "QueueFull"]
            /\ UNCHANGED queues
       ELSE /\ jobs' = [jobs EXCEPT
                   ![j].state = "QUEUED",
                   ![j].provider = SelectProvider(jobs[j].media_type, {})]
            /\ queues' = [queues EXCEPT ![jobs[j].media_type] = Append(@, j)]
    /\ UNCHANGED <<dbVars, calls>>

\* LoadBalancer.handle_provider_failure: the job enters its queue again with
\* the provider the selector returns when the failed ones are left out; the
\* queue being full, the job stays FAILED with QueueFull
RetryJob(j) ==
    /\ j \in 1..Len(jobs)
    /\ CanRetry(j)
    /\ IF QueueFull(jobs[j].media_type)
       THEN /\ jobs' = [jobs EXCEPT ![j].error = "QueueFull"]
            /\ UNCHANGED queues
       ELSE /\ jobs' = [jobs EXCEPT
                   ![j].state = "QUEUED",
                   ![j].provider = SelectProvider(jobs[j].media_type,
                                                  jobs[j].failed)]
            /\ queues' = [queues EXCEPT ![jobs[j].media_type] = Append(@, j)]
    /\ UNCHANGED <<dbVars, calls>>

\* cancel_job that releases at once what the job's user has reserved, also
\* when the job is with its provider
CancelJob_ReleaseAtOnce(j) ==
    /\ j \in 1..Len(jobs)
    /\ jobs[j].state \in {"QUEUED", "RESERVING", "DISPATCHED"}
    /\ ~jobs[j].cancel_requested
    /\ credit_reservations' =
           [i \in 1..Len(credit_reservations) |->
               IF /\ credit_reservations[i].user_id = jobs[j].user
                  /\ credit_reservations[i].status = "reserved"
               THEN [credit_reservations[i] EXCEPT !.status = "cancelled"]
               ELSE credit_reservations[i]]
    /\ reserved_balance' = [reserved_balance EXCEPT ![jobs[j].user] = 0]
    /\ IF jobs[j].state = "DISPATCHED"
       THEN /\ jobs' = [jobs EXCEPT ![j].cancel_requested = TRUE]
            /\ UNCHANGED queues
       ELSE /\ jobs' = [jobs EXCEPT ![j].state = "CANCELLED",
                                    ![j].error = "Cancelled"]
            /\ queues' = [queues EXCEPT ![jobs[j].media_type] = Without(@, j)]
    /\ UNCHANGED <<balance, credit_transactions, now, calls>>

\* MediaServicesManager.cancel_job(job_id, user_id). Before the job is
\* dispatched: the job is CANCELLED and leaves its queue, its reservation is
\* cancelled. While the provider call is in flight: the call is not aborted,
\* the request is noted on the job and the reservation is left as it is
\* until the provider has answered
CancelJob(j) ==
    /\ j \in 1..Len(jobs)
    /\ IF jobs[j].state = "DISPATCHED"
       THEN /\ ~jobs[j].cancel_requested
            /\ jobs' = [jobs EXCEPT ![j].cancel_requested = TRUE]
            /\ UNCHANGED <<dbVars, queues>>
       ELSE /\ jobs[j].state \in {"QUEUED", "RESERVING"}
            /\ CancelReservation(jobs[j].reservation_id)
            /\ jobs' = [jobs EXCEPT ![j].state = "CANCELLED",
                                    ![j].error = "Cancelled"]
            /\ queues' = [queues EXCEPT ![jobs[j].media_type] = Without(@, j)]
    /\ UNCHANGED calls

\* a job that changes no more
TerminalJob(j) ==
    \/ jobs[j].state \in {"COMPLETED", "CANCELLED"}
    \/ jobs[j].state = "FAILED" /\ ~CanRetry(j)

\* ------------------------------------------------------ generate_media
CallIds == 1..MaxCalls
Keys == {"k1", "k2"}
\* MediaRequest.max_cost: None, or a limit below the dearest estimate
NoMaxCost == -1
MaxCosts == {NoMaxCost, MaxAmount - 1}

\* a call nobody has made yet; made is the id of the reservation the call
\* makes, kept for the claims: the program does not read it
IdleCall ==
    [pc |-> "idle", user |-> "u1", media_type |-> "audio", key |-> "k1",
     max_cost |-> NoMaxCost, priority |-> 1, provider |-> NoProvider,
     estimated_cost |-> 0, job_id |-> NoId, reservation_id |-> NoId,
     error |-> "none", made |-> NoId]

Finished(c) == calls[c].pc \in {"returned", "raised"}

\* generate_media leaves the try block with an exception
Raise(cs, c, e) == [cs EXCEPT ![c].pc = "handle_error", ![c].error = e]

\* step 1, _validate_credits(request): the user has credits
ValidateCredits(u) == get_user_balance(u) > 0

\* a caller invokes generate_media(request), which runs its steps 1 to 3:
\* _validate_credits, _select_provider and provider.estimate_cost read the
\* balance and the registry and write nothing; request.max_cost is read by
\* none of them
GenerateMedia(c, u, mt, key, mc) ==
    /\ calls[c].pc = "idle"
    /\ \A d \in CallIds : d < c => calls[d].pc # "idle"
    /\ LET p == SelectProvider(mt, {})
           request == [IdleCall EXCEPT !.user = u, !.media_type = mt,
                                       !.key = key, !.max_cost = mc]
           started == [calls EXCEPT ![c] = request]
       IN  calls' =
               IF ~ValidateCredits(u)
               THEN Raise(started, c, "InsufficientCredits")
               ELSE IF p = NoProvider
               THEN Raise(started, c, "NoProvidersAvailable")
               ELSE [started EXCEPT ![c].pc = "reserve", ![c].provider = p,
                         ![c].estimated_cost = EstimateCost(p)]
    /\ UNCHANGED <<dbVars, schedVars>>

\* step 4, credit_manager.reserve_credits(user_id, estimated_cost): the id
\* it returns is assigned to nothing
Reserve(c) ==
    /\ calls[c].pc = "reserve"
    /\ ReserveCredits(calls[c].user, calls[c].estimated_cost)
    /\ calls' = IF get_user_balance(calls[c].user) < calls[c].estimated_cost
                THEN Raise(calls, c, "InsufficientCredits")
                ELSE [calls EXCEPT ![c].pc = "add_job",
                          ![c].made = Len(credit_reservations) + 1]
    /\ UNCHANGED schedVars

\* step 5, queue_manager.add_job(request, provider)
AddJob(c) ==
    /\ calls[c].pc = "add_job"
    /\ Enqueue(c, calls[c].user, calls[c].media_type, calls[c].priority,
               calls[c].provider, calls[c].estimated_cost,
               calls[c].reservation_id)
    /\ calls' = IF QueueFull(calls[c].media_type)
                THEN Raise(calls, c, "QueueFull")
                ELSE [calls EXCEPT ![c].pc = "execute",
                          ![c].job_id = Len(jobs) + 1]
    /\ UNCHANGED dbVars

\* step 6, _execute_generation(job_id, request, provider) ends with the job
ExecuteGeneration(c) ==
    /\ calls[c].pc = "execute"
    /\ TerminalJob(calls[c].job_id)
    /\ calls' = IF jobs[calls[c].job_id].state = "COMPLETED"
                THEN [calls EXCEPT ![c].pc = "process"]
                ELSE Raise(calls, c, jobs[calls[c].job_id].error)
    /\ UNCHANGED <<dbVars, schedVars>>

\* step 7, _process_result(response, request): the reservation is confirmed
\* for the actual cost and the result is stored (stored = FALSE: the storage
\* collaborator fails)
ProcessResult(c, stored) ==
    /\ calls[c].pc = "process"
    /\ ConfirmTransaction(calls[c].reservation_id,
                          jobs[calls[c].job_id].actual_cost)
    /\ calls' = IF ~Exists(calls[c].reservation_id)
                THEN Raise(calls, c, "ReservationNotFound")
                ELSE IF ~stored THEN Raise(calls, c, "StorageError")
                ELSE [calls EXCEPT ![c].pc = "returned"]
    /\ UNCHANGED schedVars

\* except Exception: _handle_error(request, e), then raise: the reservation
\* is cancelled
HandleError(c) ==
    /\ calls[c].pc = "handle_error"
    /\ CancelReservation(calls[c].reservation_id)
    /\ calls' = [calls EXCEPT ![c].pc = "raised"]
    /\ UNCHANGED schedVars

\* ------------------------------------------------- provider scoring
\* a score that has not been computed
NoScore == -1
\* the estimates and market averages of a request, in credits
Estimates == 0..(2 * MaxAmount + 1)
MarketAverages == 0..(MaxAmount + 1)
\* quality, speed and load scores, in hundredths
Factors == {0, 50, 95, 100}

\* no _calculate_provider_score call
IdleScoreCall ==
    [estimated_cost |-> 0, market_average |-> 0, quality_score |-> 0,
     speed_score |-> 0, load_score |-> 0, cost_score |-> NoScore,
     total_score |-> NoScore]

\* cost_score = await provider.get_cost_efficiency_score(request)
GetCostEfficiencyScore ==
    /\ score_call.cost_score = NoScore
    /\ score_call' = [score_call EXCEPT !.cost_score =
           CostEfficiency(score_call.estimated_cost, score_call.market_average)]

\* the weighted scoring of _calculate_provider_score and its return
CalculateScore ==
    /\ score_call.cost_score # NoScore
    /\ score_call.total_score = NoScore
    /\ score_call' = [score_call EXCEPT !.total_score =
           TotalScore(score_call.cost_score, score_call.quality_score,
                      score_call.speed_score, score_call.load_score)]

\* ------------------------------------------------- POST /generate
\* the requests the endpoint answers
MaxRequests == 2

\* HTTP status codes: the success of a FastAPI route, HTTPException(402)
\* and HTTPException(500)
Ok == 200
PaymentRequired == 402
InternalServerError == 500

\* no request yet
IdleEndpoint == [responses |-> <<>>, started |-> 0]

\* except Exception as e: raise HTTPException(status_code=500,
\* detail=str(e)), for an exception raised in the try block, an
\* HTTPException of any status code being an Exception
ExceptException(status_code) == InternalServerError

\* POST /generate by user u for a request that media_manager.estimate_cost
\* estimates at est; starts = FALSE: media_manager.start_generation raises.
\* The response records the balance and the estimate of the 402 detail
PostGenerate(u, est, starts) ==
    LET user_balance == get_user_balance(u)
        status_code ==
            IF user_balance < est THEN ExceptException(PaymentRequired)
            ELSE IF ~starts THEN ExceptException(InternalServerError)
            ELSE Ok
        job_id == IF status_code = Ok THEN endpoint.started + 1 ELSE NoId
    IN  /\ Len(endpoint.responses) < MaxRequests
        /\ endpoint' =
               [responses |-> Append(endpoint.responses,
                    [user |-> u, user_balance |-> user_balance,
                     estimated_cost |-> est, status_code |-> status_code,
                     job_id |-> job_id]),
                started |-> IF status_code = Ok THEN endpoint.started + 1
                            ELSE endpoint.started]

\* ------------------------------------------------- MCP billing
\* the concurrent process_media_generation calls of the user
McpCallIds == 1..MaxCalls

\* a call nobody has made yet; deducted is what the call has taken from the
\* user's credits
IdleMcpCall == [pc |-> "idle", final_cost |-> 0, deducted |-> 0]

\* a user without credits, no call
IdleMcp == [credits |-> 0, calls |-> [c \in McpCallIds |-> IdleMcpCall]]

\* has_sufficient_credits(user_id, final_cost), as the check of
\* text_to_speech: not (user_credits < final_cost)
has_sufficient_credits(final_cost) == ~(mcp.credits < final_cost)

\* deduct_credits(user_id, amount): the credits less the amount
deduct_credits(amount) == mcp.credits - amount

\* process_media_generation(user_id, service, args) up to its first await
\* that leaves the billing code: the cost is computed and the balance is
\* checked; InsufficientCreditsError ends the call
ProcessMediaGeneration(c, final_cost) ==
    /\ mcp.calls[c].pc = "idle"
    /\ \A d \in McpCallIds : d < c => mcp.calls[d].pc # "idle"
    /\ mcp' = [mcp EXCEPT
           !.calls[c].final_cost = final_cost,
           !.calls[c].pc = IF has_sufficient_credits(final_cost)
                           THEN "call_tool" ELSE "raised"]

\* result = await mcp_client.call_tool(service, args); succeeds = FALSE: the
\* tool raises and the call ends with its exception
CallTool(c, succeeds) ==
    /\ mcp.calls[c].pc = "call_tool"
    /\ mcp' = [mcp EXCEPT
           !.calls[c].pc = IF succeeds THEN "deduct" ELSE "raised"]

\* await deduct_credits(user_id, final_cost); return result
DeductCredits(c) ==
    /\ mcp.calls[c].pc = "deduct"
    /\ mcp' = [mcp EXCEPT
           !.credits = deduct_credits(mcp.calls[c].final_cost),
           !.calls[c].deducted = mcp.calls[c].final_cost,
           !.calls[c].pc = "returned"]

\* ------------------------------------------------- CodeServerIframe
\* the runs of the component's effect: the mount and the re-runs that new
\* onReady/onError callbacks of the parent cause
MaxEffectRuns == 2
\* the clicks of the user on Start, Stop and Restart
MaxClicks == 2

\* a component that is not mounted yet: the initial values of useState and
\* useRef; checks, starts, stops, restarts are the requests in flight,
\* timers the pending 2-second timers, intervals the active status-polling
\* intervals, start_result the status of the last start response, ready the
\* status the component had when it last invoked onReady
IdleIframe ==
    [life |-> "new", status |-> "not_initialized", isLoading |-> TRUE,
     isStarting |-> FALSE, isStopping |-> FALSE, runs |-> 0, checks |-> 0,
     starts |-> 0, stops |-> 0, restarts |-> 0, timers |-> 0,
     intervals |-> 0, clicks |-> 0, start_result |-> "none",
     ready |-> "none"]

\* GET /code-server/status/{sandbox_id}
StatusResult == code_server

\* the component renders the IDE iframe: status.status !== 'running' returns
\* the control panel
IframeRendered == iframe.status = "running"

\* onReady?.() called by component state f: what the caller sees
OnReady(f) == IF f.life # "mounted" THEN "unmounted" ELSE f.status

\* clearInterval(statusCheckInterval.current): the interval the ref holds
ClearInterval(n) == IF n > 0 THEN n - 1 ELSE 0

\* the effect runs: the cleanup of the run before clears the interval of
\* the ref, initializeCodeServer() is called and sends its status request,
\* and a new interval is set
RunEffect ==
    /\ iframe.runs < MaxEffectRuns
    /\ iframe.life = IF iframe.runs = 0 THEN "new" ELSE "mounted"
    /\ iframe' = [iframe EXCEPT
           !.life = "mounted",
           !.runs = @ + 1,
           !.checks = @ + 1,
           !.intervals = ClearInterval(@) + 1]
    /\ UNCHANGED code_server

\* initializeCodeServer: checkStatus() returns (ok = FALSE: the request
\* fails and checkStatus returns null); with autoStart and the status
\* not_initialized startCodeServer() is called and sends its request
InitCheckReturns(ok) ==
    /\ iframe.checks > 0
    /\ iframe' =
           IF ~ok
           THEN [iframe EXCEPT !.checks = @ - 1]
           ELSE IF StatusResult = "not_initialized"
           THEN [iframe EXCEPT !.checks = @ - 1, !.status = StatusResult,
                               !.isStarting = TRUE, !.starts = @ + 1]
           ELSE IF StatusResult = "running"
           THEN [iframe EXCEPT !.checks = @ - 1, !.status = StatusResult,
                               !.isLoading = FALSE]
           ELSE [iframe EXCEPT !.checks = @ - 1, !.status = StatusResult]
    /\ UNCHANGED code_server

\* the user clicks Start: the button is rendered while the status is not
\* running and is disabled while isStarting
ClickStart ==
    /\ iframe.life = "mounted"
    /\ ~IframeRendered
    /\ ~iframe.isStarting
    /\ iframe.clicks < MaxClicks
    /\ iframe' = [iframe EXCEPT !.isStarting = TRUE, !.starts = @ + 1,
                                !.clicks = @ + 1]
    /\ UNCHANGED code_server

\* POST /code-server/start/{sandbox_id}: the status of the response
\* (works = FALSE: manager.start_code_server fails and answers error)
StartResult(works) ==
    IF code_server = "running" THEN "already_running"
    ELSE IF works THEN "running" ELSE "error"

\* a start request is answered (ok = FALSE: the request fails before the
\* backend): on running or already_running the status is set to the
\* response and the 2-second timer is started; isStarting is reset
StartReturns(ok, works) ==
    /\ iframe.starts > 0
    /\ IF ~ok
       THEN /\ iframe' = [iframe EXCEPT !.starts = @ - 1,
                                        !.isStarting = FALSE]
            /\ UNCHANGED code_server
       ELSE /\ code_server' = IF StartResult(works) = "error"
                              THEN "stopped" ELSE "running"
            /\ iframe' =
                   IF StartResult(works) \in {"running", "already_running"}
                   THEN [iframe EXCEPT
                            !.starts = @ - 1, !.isStarting = FALSE,
                            !.status = StartResult(works),
                            !.start_result = StartResult(works),
                            !.timers = @ + 1]
                   ELSE [iframe EXCEPT
                            !.starts = @ - 1, !.isStarting = FALSE,
                            !.start_result = StartResult(works)]

\* setTimeout(() => { setIsLoading(false); onReady?.() }, 2000) fires
TimerFires ==
    /\ iframe.timers > 0
    /\ iframe' = [iframe EXCEPT !.timers = @ - 1, !.isLoading = FALSE,
                                !.ready = OnReady(iframe)]
    /\ UNCHANGED code_server

\* the user clicks Stop: rendered while the status is running, disabled
\* while isStopping
ClickStop ==
    /\ iframe.life = "mounted"
    /\ IframeRendered
    /\ ~iframe.isStopping
    /\ iframe.clicks < MaxClicks
    /\ iframe' = [iframe EXCEPT !.isStopping = TRUE, !.stops = @ + 1,
                                !.clicks = @ + 1]
    /\ UNCHANGED code_server

\* POST /code-server/stop/{sandbox_id}: the status of the response
StopResult == IF code_server = "not_initialized" THEN "not_running"
              ELSE "stopped"

\* a stop request is answered: the manager is stopped and deleted, the
\* status is set to the response
StopReturns(ok) ==
    /\ iframe.stops > 0
    /\ IF ~ok
       THEN /\ iframe' = [iframe EXCEPT !.stops = @ - 1,
                                        !.isStopping = FALSE]
            /\ UNCHANGED code_server
       ELSE /\ code_server' = "not_initialized"
            /\ iframe' = [iframe EXCEPT !.stops = @ - 1,
                                        !.isStopping = FALSE,
                                        !.status = StopResult]

\* the user clicks Restart: rendered while the status is running, disabled
\* while isStarting
ClickRestart ==
    /\ iframe.life = "mounted"
    /\ IframeRendered
    /\ ~iframe.isStarting
    /\ iframe.clicks < MaxClicks
    /\ iframe' = [iframe EXCEPT !.isStarting = TRUE, !.restarts = @ + 1,
                                !.clicks = @ + 1]
    /\ UNCHANGED code_server

\* a restart request is answered: on running the status is set, the
\* overlay is cleared and onReady is invoked at once
RestartReturns(ok) ==
    /\ iframe.restarts > 0
    /\ IF ~ok
       THEN /\ iframe' = [iframe EXCEPT !.restarts = @ - 1,
                                        !.isStarting = FALSE]
            /\ UNCHANGED code_server
       ELSE /\ code_server' = "running"
            /\ iframe' = [iframe EXCEPT
                   !.restarts = @ - 1, !.isStarting = FALSE,
                   !.status = "running", !.isLoading = FALSE,
                   !.ready = OnReady([iframe EXCEPT !.status = "running"])]

\* the interval calls checkStatus, which sets the status to the response
PollStatus ==
    /\ iframe.intervals > 0
    /\ iframe.status # StatusResult
    /\ iframe' = [iframe EXCEPT !.status = StatusResult]
    /\ UNCHANGED code_server

\* handleIframeLoad: the iframe, rendered, has loaded its page
HandleIframeLoad ==
    /\ iframe.life = "mounted"
    /\ IframeRendered
    /\ iframe.ready # OnReady(iframe) \/ iframe.isLoading
    /\ iframe' = IF iframe.status = "running"
                  THEN [iframe EXCEPT !.isLoading = FALSE,
                                      !.ready = OnReady(iframe)]
                  ELSE iframe
    /\ UNCHANGED code_server

\* the component is unmounted: the effect's cleanup clears the interval of
\* the ref; requests in flight and timers are left as they are
Unmount ==
    /\ iframe.life = "mounted"
    /\ iframe' = [iframe EXCEPT !.life = "unmounted",
                                !.intervals = ClearInterval(@)]
    /\ UNCHANGED code_server

\* the parts of the state that belong to no ledger, job, registry or score
RestInit ==
    /\ endpoint = IdleEndpoint
    /\ mcp = IdleMcp
    /\ code_server = "not_initialized"
    /\ iframe = IdleIframe

\* the parts of the state that belong to no ledger, job or registry
ExtInit ==
    /\ score_call = IdleScoreCall
    /\ RestInit

\* ------------------------------------------------- ledger specification
\* user_credits rows as the schema creates them, empty tables
LedgerInit ==
    /\ balance = [u \in Users |-> 0]
    /\ reserved_balance = [u \in Users |-> 0]
    /\ credit_reservations = <<>>
    /\ credit_transactions = <<>>
    /\ now = 0
    /\ calls = [c \in CallIds |-> IdleCall]
    /\ jobs = <<>>
    /\ queues = [mt \in MediaTypes |-> <<>>]
    /\ providers = InitialProviders
    /\ selection = NoSelection
    /\ ExtInit

DoReserve ==
    /\ \E u \in Users, amt \in Amounts : ReserveCredits(u, amt)
    /\ UNCHANGED <<orchVars, registryVars, extVars>>
DoConfirm ==
    /\ \E rid \in ReservationIds, c \in ActualCosts : ConfirmTransaction(rid, c)
    /\ UNCHANGED <<orchVars, registryVars, extVars>>
DoCancel ==
    /\ \E rid \in ReservationIds : CancelReservation(rid)
    /\ UNCHANGED <<orchVars, registryVars, extVars>>
DoAddCredits ==
    /\ \E u \in Users, amt \in CreditPackages : AddCredits(u, amt)
    /\ UNCHANGED <<orchVars, registryVars, extVars>>
DoExpireStale ==
    /\ \E ttl \in Ttls : ExpireStale(ttl)
    /\ UNCHANGED <<orchVars, registryVars, extVars>>
DoTick ==
    /\ Tick
    /\ UNCHANGED <<orchVars, registryVars, extVars>>

LedgerNext ==
    \/ DoReserve
    \/ DoConfirm
    \/ DoCancel
    \/ DoAddCredits
    \/ DoExpireStale
    \/ DoTick

\* any caller, any order of ledger calls
SpecLedger == LedgerInit /\ [][LedgerNext]_vars

\* ------------------------------------------------- the orchestrator
Init == LedgerInit

DoGenerateMedia ==
    /\ \E c \in CallIds, u \in Users, mt \in MediaTypes, key \in Keys,
          mc \in MaxCosts :
           GenerateMedia(c, u, mt, key, mc)
    /\ UNCHANGED <<registryVars, extVars>>
DoReserveStep ==
    /\ \E c \in CallIds : Reserve(c)
    /\ UNCHANGED <<registryVars, extVars>>
DoAddJob ==
    /\ \E c \in CallIds : AddJob(c)
    /\ UNCHANGED <<registryVars, extVars>>
DoStartJob ==
    /\ \E j \in 1..Len(jobs) : StartJob(j)
    /\ UNCHANGED <<registryVars, extVars>>
DoDispatchJob ==
    /\ \E j \in 1..Len(jobs) : DispatchJob(j)
    /\ UNCHANGED <<registryVars, extVars>>
DoProviderSucceeds ==
    /\ \E j \in 1..Len(jobs) :
           \E cost \in ResponseCosts(jobs[j].estimated_cost) :
               ProviderSucceeds(j, cost)
    /\ UNCHANGED <<registryVars, extVars>>
DoProviderFails ==
    /\ \E j \in 1..Len(jobs), timeout \in BOOLEAN : ProviderFails(j, timeout)
    /\ UNCHANGED <<registryVars, extVars>>
DoRetryJob ==
    /\ \E j \in 1..Len(jobs) : RetryJob(j)
    /\ UNCHANGED <<registryVars, extVars>>
DoExecuteGeneration ==
    /\ \E c \in CallIds : ExecuteGeneration(c)
    /\ UNCHANGED <<registryVars, extVars>>
DoProcessResult ==
    /\ \E c \in CallIds, stored \in BOOLEAN : ProcessResult(c, stored)
    /\ UNCHANGED <<registryVars, extVars>>
DoHandleError ==
    /\ \E c \in CallIds : HandleError(c)
    /\ UNCHANGED <<registryVars, extVars>>

Next ==
    \/ DoAddCredits
    \/ DoGenerateMedia
    \/ DoReserveStep
    \/ DoAddJob
    \/ DoStartJob
    \/ DoDispatchJob
    \/ DoProviderSucceeds
    \/ DoProviderFails
    \/ DoRetryJob
    \/ DoExecuteGeneration
    \/ DoProcessResult
    \/ DoHandleError

\* purchases and generate_media calls, their steps interleaved
Spec == Init /\ [][Next]_vars

\* ------------------------------------------------- the selector alone
SelectInit ==
    /\ balance = [u \in Users |-> 0]
    /\ reserved_balance = [u \in Users |-> 0]
    /\ credit_reservations = <<>>
    /\ credit_transactions = <<>>
    /\ now = 0
    /\ calls = [c \in CallIds |-> IdleCall]
    /\ jobs = <<>>
    /\ queues = [mt \in MediaTypes |-> <<>>]
    /\ providers \in Registries
    /\ selection = NoSelection
    /\ ExtInit

DoSelect ==
    /\ \E mt \in MediaTypes : Select(mt)
    /\ UNCHANGED <<dbVars, orchVars, extVars>>

SelectNext == DoSelect

\* _select_provider called on any registry
SpecSelect == SelectInit /\ [][SelectNext]_vars

\* ------------------------------------------------- the scoring alone
ScoreInit ==
    /\ balance = [u \in Users |-> 0]
    /\ reserved_balance = [u \in Users |-> 0]
    /\ credit_reservations = <<>>
    /\ credit_transactions = <<>>
    /\ now = 0
    /\ calls = [c \in CallIds |-> IdleCall]
    /\ jobs = <<>>
    /\ queues = [mt \in MediaTypes |-> <<>>]
    /\ providers = InitialProviders
    /\ selection = NoSelection
    /\ score_call \in [estimated_cost : Estimates,
                        market_average : MarketAverages,
                        quality_score : Factors, speed_score : Factors,
                        load_score : Factors, cost_score : {NoScore},
                        total_score : {NoScore}]
    /\ RestInit

DoGetCostEfficiencyScore ==
    /\ GetCostEfficiencyScore
    /\ UNCHANGED <<dbVars, orchVars, registryVars, endpoint, mcp, ideVars>>
DoCalculateScore ==
    /\ CalculateScore
    /\ UNCHANGED <<dbVars, orchVars, registryVars, endpoint, mcp, ideVars>>

ScoreNext ==
    \/ DoGetCostEfficiencyScore
    \/ DoCalculateScore

\* _calculate_provider_score for any estimate, market average and scores
SpecScore == ScoreInit /\ [][ScoreNext]_vars

\* ------------------------------------------------- the endpoint alone
DoPostGenerate ==
    /\ \E u \in Users, est \in Estimates, starts \in BOOLEAN :
           PostGenerate(u, est, starts)
    /\ UNCHANGED <<dbVars, orchVars, registryVars, score_call, mcp, ideVars>>

EndpointNext ==
    \/ DoAddCredits
    \/ DoPostGenerate

\* purchases and POST /generate requests
SpecEndpoint == LedgerInit /\ [][EndpointNext]_vars

\* ------------------------------------------------- MCP billing alone
McpInit ==
    /\ balance = [u \in Users |-> 0]
    /\ reserved_balance = [u \in Users |-> 0]
    /\ credit_reservations = <<>>
    /\ credit_transactions = <<>>
    /\ now = 0
    /\ calls = [c \in CallIds |-> IdleCall]
    /\ jobs = <<>>
    /\ queues = [mt \in MediaTypes |-> <<>>]
    /\ providers = InitialProviders
    /\ selection = NoSelection
    /\ score_call = IdleScoreCall
    /\ endpoint = IdleEndpoint
    /\ mcp \in {[IdleMcp EXCEPT !.credits = c] : c \in 0..MaxBalance}
    /\ code_server = "not_initialized"
    /\ iframe = IdleIframe

DoProcessMediaGeneration ==
    /\ \E c \in McpCallIds, final_cost \in Amounts :
           ProcessMediaGeneration(c, final_cost)
    /\ UNCHANGED <<dbVars, orchVars, registryVars, score_call, endpoint,
                   ideVars>>
DoCallTool ==
    /\ \E c \in McpCallIds, succeeds \in BOOLEAN : CallTool(c, succeeds)
    /\ UNCHANGED <<dbVars, orchVars, registryVars, score_call, endpoint,
                   ideVars>>
DoDeductCredits ==
    /\ \E c \in McpCallIds : DeductCredits(c)
    /\ UNCHANGED <<dbVars, orchVars, registryVars, score_call, endpoint,
                   ideVars>>

McpNext ==
    \/ DoProcessMediaGeneration
    \/ DoCallTool
    \/ DoDeductCredits

\* process_media_generation calls of one user, their awaits interleaved
SpecMcp == McpInit /\ [][McpNext]_vars

\* ------------------------------------------------- the component alone
DoRunEffect ==
    /\ RunEffect
    /\ UNCHANGED <<dbVars, orchVars, registryVars, score_call, endpoint, mcp>>
DoInitCheckReturns ==
    /\ \E ok \in BOOLEAN : InitCheckReturns(ok)
    /\ UNCHANGED <<dbVars, orchVars, registryVars, score_call, endpoint, mcp>>
DoClickStart ==
    /\ ClickStart
    /\ UNCHANGED <<dbVars, orchVars, registryVars, score_call, endpoint, mcp>>
DoStartReturns ==
    /\ \E ok \in BOOLEAN, works \in BOOLEAN : StartReturns(ok, works)
    /\ UNCHANGED <<dbVars, orchVars, registryVars, score_call, endpoint, mcp>>
DoTimerFires ==
    /\ TimerFires
    /\ UNCHANGED <<dbVars, orchVars, registryVars, score_call, endpoint, mcp>>
DoClickStop ==
    /\ ClickStop
    /\ UNCHANGED <<dbVars, orchVars, registryVars, score_call, endpoint, mcp>>
DoStopReturns ==
    /\ \E ok \in BOOLEAN : StopReturns(ok)
    /\ UNCHANGED <<dbVars, orchVars, registryVars, score_call, endpoint, mcp>>
DoClickRestart ==
    /\ ClickRestart
    /\ UNCHANGED <<dbVars, orchVars, registryVars, score_call, endpoint, mcp>>
DoRestartReturns ==
    /\ \E ok \in BOOLEAN : RestartReturns(ok)
    /\ UNCHANGED <<dbVars, orchVars, registryVars, score_call, endpoint, mcp>>
DoPollStatus ==
    /\ PollStatus
    /\ UNCHANGED <<dbVars, orchVars, registryVars, score_call, endpoint, mcp>>
DoHandleIframeLoad ==
    /\ HandleIframeLoad
    /\ UNCHANGED <<dbVars, orchVars, registryVars, score_call, endpoint, mcp>>
DoUnmount ==
    /\ Unmount
    /\ UNCHANGED <<dbVars, orchVars, registryVars, score_call, endpoint, mcp>>

IframeNext ==
    \/ DoRunEffect
    \/ DoInitCheckReturns
    \/ DoClickStart
    \/ DoStartReturns
    \/ DoTimerFires
    \/ DoClickStop
    \/ DoStopReturns
    \/ DoClickRestart
    \/ DoRestartReturns
    \/ DoPollStatus
    \/ DoHandleIframeLoad
    \/ DoUnmount

\* one CodeServerIframe of one sandbox: the effect, the user's clicks, the
\* answers of the backend, the timers and the unmount, in any order
SpecIframe == LedgerInit /\ [][IframeNext]_vars

\* ------------------------------------------------- the queue manager alone
DoEnqueue ==
    /\ Len(jobs) < MaxJobs
    /\ \E mt \in MediaTypes, prio \in Priorities :
           Enqueue(NoId, "u1", mt, prio, SelectProvider(mt, {}),
                   EstimateCost(SelectProvider(mt, {})), NoId)
    /\ UNCHANGED <<dbVars, calls, registryVars, extVars>>
DoCancelJob ==
    /\ \E j \in 1..Len(jobs) : CancelJob(j)
    /\ UNCHANGED <<registryVars, extVars>>

SchedulerNext ==
    \/ DoEnqueue
    \/ DoStartJob
    \/ DoDispatchJob
    \/ DoProviderSucceeds
    \/ DoProviderFails
    \/ DoRetryJob
    \/ DoCancelJob

\* jobs of any caller, the workers' steps interleaved
SpecScheduler == LedgerInit /\ [][SchedulerNext]_vars

\* the workers are scheduled fairly: as long as a waiting job can be popped,
\* a job that holds its reservation dispatched, a FAILED job with attempts
\* left taken up again, or a provider call ended by the session's timeout
\* (aiohttp.ClientTimeout(total=300)), one of these steps is taken
SpecSchedulerFair ==
    /\ SpecScheduler
    /\ WF_vars(DoStartJob \/ DoDispatchJob \/ DoProviderFails \/ DoRetryJob)

\* ------------------------------------------- generate_media and cancel_job
\* the generate_media calls whose jobs are open to cancel_job
MaxCancelCalls == 1

\* a caller invokes generate_media for user u1 with no max_cost
DoGenerateDefault ==
    /\ \E c \in 1..MaxCancelCalls, mt \in MediaTypes :
           GenerateMedia(c, "u1", mt, "k1", NoMaxCost)
    /\ UNCHANGED <<registryVars, extVars>>

CancelNext ==
    \/ DoAddCredits
    \/ DoGenerateDefault
    \/ DoReserveStep
    \/ DoAddJob
    \/ DoStartJob
    \/ DoDispatchJob
    \/ DoProviderSucceeds
    \/ DoProviderFails
    \/ DoRetryJob
    \/ DoExecuteGeneration
    \/ DoProcessResult
    \/ DoHandleError
    \/ DoCancelJob

\* generate_media calls of one user, whose jobs the caller may cancel at any
\* moment
SpecCancel == Init /\ [][CancelNext]_vars

\* ----------------------------------------------------------------- claims
\* C1: in every reachable state every account has
\* balance - reservedBalance >= 0.
C1_AvailableNonNegative ==
    \A u \in Users : balance[u] - reserved_balance[u] >= 0

\* C2: a reserve call succeeds only when the amount fits the available
\* balance (balance - reservedBalance) of that moment, so the reservations
\* that succeed never jointly exceed the available balance before them; of
\* two reserve(60) calls on balance 100 only one succeeds.
C2_ReserveWithinAvailable ==
    [][\A u \in Users, amt \in Amounts :
          (ReserveCredits(u, amt)
             /\ Len(credit_reservations') = Len(credit_reservations) + 1)
          => balance[u] - reserved_balance[u] >= amt]_vars

\* C3: each account's balance equals the sum over its transaction log
\* (credits minus debits), and the log only grows: no row of it is altered
\* or removed.
C3_BalanceIsLedgerSum ==
    /\ [](\A u \in Users : balance[u] = LedgerSum(u))
    /\ [][/\ Len(credit_transactions') >= Len(credit_transactions)
          /\ SubSeq(credit_transactions', 1, Len(credit_transactions))
                 = credit_transactions]_vars

\* a purchase and a debit are in the log, and the balance is what is left
C3_Witness ==
    \E u \in Users :
        /\ \E i \in 1..Len(credit_transactions) :
               /\ credit_transactions[i].user_id = u
               /\ credit_transactions[i].type = "debit"
               /\ credit_transactions[i].amount > 0
        /\ \E i \in 1..Len(credit_transactions) :
               /\ credit_transactions[i].user_id = u
               /\ credit_transactions[i].type = "credit"
        /\ balance[u] < MaxBalance
        /\ balance[u] = LedgerSum(u)

\* C4: confirm(r, actual) on a reservation in status reserved, with
\* actual <= r.amount, decreases balance by exactly actual and
\* reservedBalance by exactly r.amount, appends exactly one debit of amount
\* actual that references r, and sets r to confirmed.
C4_ConfirmSemantics ==
    [][\A rid \in ReservationIds, actual \in ActualCosts :
          (/\ ConfirmTransaction(rid, actual)
           /\ Exists(rid)
           /\ credit_reservations[rid].status = "reserved"
           /\ actual <= credit_reservations[rid].amount)
          => LET r == credit_reservations[rid]
                 u == r.user_id
             IN  /\ balance'[u] = balance[u] - actual
                 /\ reserved_balance'[u] = reserved_balance[u] - r.amount
                 /\ credit_transactions' = Append(credit_transactions,
                        [user_id |-> u, amount |-> actual, type |-> "debit",
                         reservation_id |-> rid])
                 /\ credit_reservations'[rid].status = "confirmed"
                 /\ \A v \in Users \ {u} :
                        /\ balance'[v] = balance[v]
                        /\ reserved_balance'[v] = reserved_balance[v]]_vars

\* a reservation was confirmed below its amount: the package less the
\* actual cost is the balance and nothing stays reserved
C4_Witness ==
    \E rid \in 1..Len(credit_reservations) :
        LET r == credit_reservations[rid]
        IN  /\ r.status = "confirmed"
            /\ r.actual_amount > 0
            /\ r.actual_amount < r.amount
            /\ Cardinality(DebitsOf(rid)) = 1
            /\ balance[r.user_id] = MaxBalance - r.actual_amount
            /\ reserved_balance[r.user_id] = 0

\* C5: confirm(r, actual) with actual > r.amount fails with
\* OverageOnConfirm and leaves balance, reservedBalance, the status of r and
\* the transaction log unchanged.
C5_OverageRejected ==
    [][\A rid \in ReservationIds, actual \in ActualCosts :
          (/\ ConfirmTransaction(rid, actual)
           /\ Exists(rid)
           /\ credit_reservations[rid].status = "reserved"
           /\ actual > credit_reservations[rid].amount)
          => UNCHANGED ledgerVars]_vars

\* C6: once a reservation is confirmed, cancelled or expired, no later
\* confirm, cancel or expireStale changes its status, and a confirm or
\* cancel of it changes neither balance, reservedBalance nor the log.
C6_TerminalImmutable ==
    [][\A rid \in 1..Len(credit_reservations) :
          Terminal(credit_reservations[rid].status)
          => /\ credit_reservations'[rid] = credit_reservations[rid]
             /\ \A actual \in ActualCosts :
                    ConfirmTransaction(rid, actual) => UNCHANGED ledgerVars
             /\ CancelReservation(rid) => UNCHANGED ledgerVars]_vars

\* C7: cancel(r) on a reservation in status reserved decreases
\* reservedBalance by exactly r.amount, leaves balance and the log unchanged
\* and sets r to cancelled; cancel on a terminal reservation changes
\* nothing, so a second cancel has no further effect.
C7_CancelSemantics ==
    [][\A rid \in 1..Len(credit_reservations) :
          CancelReservation(rid)
          => LET r == credit_reservations[rid]
                 u == r.user_id
             IN  IF r.status = "reserved"
                 THEN /\ reserved_balance' =
                             [reserved_balance EXCEPT ![u] = @ - r.amount]
                      /\ credit_reservations' = [credit_reservations EXCEPT
                             ![rid] = [@ EXCEPT !.status = "cancelled"]]
                      /\ UNCHANGED <<balance, credit_transactions>>
                 ELSE UNCHANGED ledgerVars]_vars

\* a reservation was cancelled and its amount released, next to a
\* terminal reservation of every other kind
C7_Witness ==
    /\ \E rid \in 1..Len(credit_reservations) :
           /\ credit_reservations[rid].status = "cancelled"
           /\ reserved_balance[credit_reservations[rid].user_id] = 0
           /\ balance[credit_reservations[rid].user_id] = MaxBalance
    /\ \E rid \in 1..Len(credit_reservations) :
           credit_reservations[rid].status \in {"confirmed", "expired"}

\* the jobs, reservations and debits that generate_media call c made
JobsOf(c) == {j \in 1..Len(jobs) : jobs[j].call = c}
ReservationsOf(c) == IF calls[c].made = NoId THEN {} ELSE {calls[c].made}

\* C8: two generate calls with the same idempotencyKey (same user, same
\* request; the clock does not advance, so both fall in the TTL window)
\* return the same jobId and together create exactly one job, exactly one
\* reservation and at most one debit transaction.
C8_SameKeyOneJob ==
    \A c, d \in CallIds :
        (/\ c < d
         /\ calls[c].pc # "idle" /\ calls[d].pc # "idle"
         /\ calls[c].user = calls[d].user
         /\ calls[c].media_type = calls[d].media_type
         /\ calls[c].key = calls[d].key)
        => /\ Cardinality(JobsOf(c) \cup JobsOf(d)) <= 1
           /\ Cardinality(ReservationsOf(c) \cup ReservationsOf(d)) <= 1
           /\ (calls[c].job_id # NoId /\ calls[d].job_id # NoId
                  => calls[c].job_id = calls[d].job_id)
           /\ Cardinality(UNION {DebitsOf(r) :
                  r \in ReservationsOf(c) \cup ReservationsOf(d)}) <= 1

\* C9: when every provider attempt of a call's job has timed out and
\* generate has finished, the job is FAILED, no debit transaction refers to
\* the call's reservation, the reservation holds nothing any more, and on an
\* account no other call has used the reserved balance is back at the 0 it
\* had before the call (the balance moves only with the log, see C3).
C9_AllTimeoutsRefunded ==
    \A c \in CallIds :
        (/\ Finished(c)
         /\ calls[c].job_id # NoId
         /\ jobs[calls[c].job_id].attempt >= 1
         /\ jobs[calls[c].job_id].timeouts = jobs[calls[c].job_id].attempt)
        => /\ jobs[calls[c].job_id].state = "FAILED"
           /\ \A r \in ReservationsOf(c) :
                  /\ DebitsOf(r) = {}
                  /\ credit_reservations[r].status # "reserved"
           /\ ((\A d \in CallIds \ {c} :
                    calls[d].pc = "idle" \/ calls[d].user # calls[c].user)
                 => reserved_balance[calls[c].user] = 0)

\* C10: once generate has finished, every reservation made for its job is in
\* a terminal status: confirmed for exactly the actual cost when the job is
\* COMPLETED, cancelled when the job is FAILED or was never queued; nothing
\* stays reserved, also when the error came after reserve succeeded.
C10_NothingLeftReserved ==
    \A c \in CallIds :
        Finished(c) =>
            \A r \in ReservationsOf(c) :
                IF calls[c].job_id # NoId
                   /\ jobs[calls[c].job_id].state = "COMPLETED"
                THEN /\ credit_reservations[r].status = "confirmed"
                     /\ credit_reservations[r].actual_amount
                            = jobs[calls[c].job_id].actual_cost
                ELSE credit_reservations[r].status = "cancelled"

\* C11: a call whose request sets max_cost below the selected provider's
\* estimate makes no reservation and no job, and when it has finished it has
\* failed with CostExceedsLimit.
C11_CostExceedsLimit ==
    \A c \in CallIds :
        (/\ calls[c].provider # NoProvider
         /\ calls[c].max_cost # NoMaxCost
         /\ calls[c].estimated_cost > calls[c].max_cost)
        => /\ ReservationsOf(c) = {}
           /\ JobsOf(c) = {}
           /\ (Finished(c) => calls[c].error = "CostExceedsLimit")

\* the active providers registered for a media type
ActiveOf(mt) ==
    {providers[mt][i].name : i \in {k \in 1..Len(providers[mt]) :
                                       providers[mt][k].status = "active"}}

\* C12: on every registry, select returns no provider in maintenance or
\* disabled and none of another media type; it fails with
\* NoProvidersAvailable exactly when the requested media type has no active
\* provider, and otherwise returns one of the active ones.
C12_SelectOnlyActive ==
    selection # NoSelection =>
        /\ (selection.provider = NoProvider
               <=> ActiveOf(selection.media_type) = {})
        /\ (selection.provider # NoProvider
               => selection.provider \in ActiveOf(selection.media_type))

\* select passed over a provider out of service whose score is the highest
C12_Witness ==
    /\ selection.media_type = "audio"
    /\ selection.provider = "Murf"
    /\ ProviderStatus["ElevenLabs"] = "maintenance"
    /\ CalculateProviderScore("ElevenLabs") > CalculateProviderScore("Murf")

\* p comes before q in the order of the selector: higher score, then higher
\* quality rating, then lower load, then smaller id
Before(p, q) ==
    LET sp == CalculateProviderScore(p)
        sq == CalculateProviderScore(q)
        lp == ProviderRecord(p).current_load
        lq == ProviderRecord(q).current_load
    IN  \/ sp > sq
        \/ sp = sq /\ QualityRating[p] > QualityRating[q]
        \/ sp = sq /\ QualityRating[p] = QualityRating[q] /\ lp < lq
        \/ sp = sq /\ QualityRating[p] = QualityRating[q] /\ lp = lq
              /\ ProviderId[p] < ProviderId[q]

\* C13: the provider select returns has the highest score of the active
\* candidates, and of those with the highest score it is the one of the
\* highest quality rating, then of the lowest load, then of the smallest id,
\* in whatever order the providers were registered.
C13_SelectTieBreak ==
    selection.provider # NoProvider =>
        \A q \in ActiveOf(selection.media_type) \ {selection.provider} :
            Before(selection.provider, q)

\* the state changes a job may make
JobEdges ==
    {<<"QUEUED", "RESERVING">>, <<"RESERVING", "DISPATCHED">>,
     <<"DISPATCHED", "COMPLETED">>, <<"DISPATCHED", "FAILED">>,
     <<"FAILED", "QUEUED">>,
     <<"QUEUED", "CANCELLED">>, <<"RESERVING", "CANCELLED">>,
     <<"DISPATCHED", "CANCELLED">>, <<"FAILED", "CANCELLED">>}

\* C15: a job starts QUEUED and every change of its state is
\* QUEUED->RESERVING, RESERVING->DISPATCHED, DISPATCHED->COMPLETED,
\* DISPATCHED->FAILED, a change to CANCELLED or the retry FAILED->QUEUED;
\* COMPLETED and CANCELLED are never left, so DISPATCHED is reached through
\* RESERVING only.
C15_JobTransitions ==
    [][/\ \A j \in 1..Len(jobs) :
              jobs'[j].state # jobs[j].state
                  => <<jobs[j].state, jobs'[j].state>> \in JobEdges
       /\ \A j \in (Len(jobs) + 1)..Len(jobs') : jobs'[j].state = "QUEUED"]_vars

\* one job went through the retry edge to COMPLETED, another was cancelled
C15_Witness ==
    /\ \E j \in 1..Len(jobs) :
           jobs[j].state = "COMPLETED" /\ jobs[j].attempt = 2
    /\ \E j \in 1..Len(jobs) : jobs[j].state = "CANCELLED"

\* C16: a job's attempt counter never exceeds the retry limit; a job enters
\* QUEUED again only after a timeout or transient error and only while
\* attempts remain; a job FAILED at the limit or by another kind of error
\* stays FAILED.
C16_RetryBudget ==
    /\ [](\A j \in 1..Len(jobs) : jobs[j].attempt <= RetryLimit)
    /\ [][\A j \in 1..Len(jobs) :
             /\ (jobs[j].state # "QUEUED" /\ jobs'[j].state = "QUEUED")
                    => /\ jobs[j].error = "ProviderTimeout"
                       /\ jobs[j].attempt < RetryLimit
             /\ (/\ jobs[j].state = "FAILED"
                 /\ (jobs[j].attempt >= RetryLimit
                        \/ jobs[j].error # "ProviderTimeout"))
                    => jobs'[j].state \in {"FAILED", "CANCELLED"}]_vars

\* an audio job timed out at the limit, with a provider left that has not
\* failed for it, and an image job failed by an error no retry cures
C16_Witness ==
    /\ \E j \in 1..Len(jobs) :
           /\ jobs[j].state = "FAILED"
           /\ jobs[j].error = "ProviderTimeout"
           /\ jobs[j].attempt = RetryLimit
           /\ SelectProvider(jobs[j].media_type, jobs[j].failed) # NoProvider
    /\ \E j \in 1..Len(jobs) :
           jobs[j].state = "FAILED" /\ jobs[j].error = "ProviderError"

Place(q, j) == CHOOSE i \in 1..Len(q) : q[i] = j

\* C19: the job dispatch pops from a queue has the highest priority present
\* in it and, of the jobs of that priority, is the one that entered the queue
\* first.
C19_DispatchOrder ==
    [][\A j \in 1..Len(jobs) :
          (jobs[j].state = "QUEUED" /\ jobs'[j].state \notin {"QUEUED", "CANCELLED"})
              => \A k \in Queued(jobs[j].media_type) \ {j} :
                     \/ jobs[k].priority < jobs[j].priority
                     \/ /\ jobs[k].priority = jobs[j].priority
                        /\ Place(queues[jobs[j].media_type], j)
                               < Place(queues[jobs[j].media_type], k)]_vars

\* a job of the higher priority has left the image queue while a job of the
\* lower priority that came before it still waits
C19_Witness ==
    \E j, k \in 1..Len(jobs) :
        /\ j < k
        /\ jobs[j].media_type = "image" /\ jobs[k].media_type = "image"
        /\ jobs[j].priority < jobs[k].priority
        /\ jobs[j].state = "QUEUED" /\ jobs[j].attempt = 0
        /\ jobs[k].state \in {"RESERVING", "DISPATCHED", "COMPLETED"}

ReservationOfJob(j) ==
    IF jobs[j].call = NoId THEN NoId ELSE calls[jobs[j].call].made

\* C21: a caller's cancel of a job that has not reached DISPATCHED sets the
\* job to CANCELLED, cancels its reservation, the full amount leaving the
\* user's reserved balance, and takes the job out of its queue, all in that
\* step; a CANCELLED job never changes its state again, so it is never
\* dispatched.
C21_CancelBeforeDispatch ==
    [][\A j \in 1..Len(jobs) :
          /\ (CancelJob(j) /\ jobs[j].state \in {"QUEUED", "RESERVING"}) =>
                LET rid == ReservationOfJob(j)
                IN  /\ jobs'[j].state = "CANCELLED"
                    /\ \A mt \in MediaTypes :
                           \A i \in 1..Len(queues'[mt]) : queues'[mt][i] # j
                    /\ rid # NoId =>
                          /\ credit_reservations'[rid].status = "cancelled"
                          /\ reserved_balance'[jobs[j].user] =
                                 reserved_balance[jobs[j].user]
                                     - credit_reservations[rid].amount
          /\ jobs[j].state = "CANCELLED" => jobs'[j].state = "CANCELLED"]_vars

OldReservedSum(u, ttl) ==
    SumInts([i \in 1..Len(credit_reservations) |->
                IF /\ credit_reservations[i].user_id = u
                   /\ credit_reservations[i].status = "reserved"
                   /\ now - credit_reservations[i].created_at > ttl
                THEN credit_reservations[i].amount ELSE 0])

\* C23: expireStale(ttl) ends exactly the reservations in status reserved
\* that are older than ttl and takes the amount of each from its user's
\* reserved balance; every other reservation (younger, or terminal), every
\* balance and the transaction log stay as they are.
C23_ExpireStaleFrame ==
    [][\A ttl \in Ttls :
          ExpireStale(ttl) =>
            /\ Len(credit_reservations') = Len(credit_reservations)
            /\ \A i \in 1..Len(credit_reservations) :
                   credit_reservations'[i] =
                       IF /\ credit_reservations[i].status = "reserved"
                          /\ now - credit_reservations[i].created_at > ttl
                       THEN [credit_reservations[i] EXCEPT !.status = "expired"]
                       ELSE credit_reservations[i]
            /\ \A u \in Users :
                   reserved_balance'[u] =
                       reserved_balance[u] - OldReservedSum(u, ttl)
            /\ balance' = balance
            /\ credit_transactions' = credit_transactions]_vars

\* a sweep has ended one reservation and left a younger one reserved
C23_Witness ==
    \E i, k \in 1..Len(credit_reservations) :
        /\ credit_reservations[i].status = "expired"
        /\ credit_reservations[k].status = "reserved"
        /\ credit_reservations[k].created_at > credit_reservations[i].created_at

\* C24: in every reachable state a job has at most one reservation in
\* status reserved, whatever the number of its attempts, and the reserved
\* balance of every account is the sum of the amounts of its reservations in
\* status reserved.
C24_OneReservedPerJob ==
    /\ \A j \in 1..Len(jobs) :
           Cardinality({rid \in ReservationIds :
                           /\ rid \in {ReservationOfJob(j), jobs[j].reservation_id}
                           /\ credit_reservations[rid].status = "reserved"}) <= 1
    /\ \A u \in Users : reserved_balance[u] = ReservedSum(u)

\* C25: for every estimate and market average the cost-efficiency score is
\* within [0, 1] and is 0.5 when the market average is 0; the provider score
\* is 0.3 * cost + 0.4 * quality + 0.2 * speed + 0.1 * load, and within
\* [0, 1] as each of the four is (scores in hundredths, the provider score
\* in thousandths).
C25_ScoreRange ==
    /\ score_call.cost_score # NoScore =>
          /\ score_call.cost_score >= 0
          /\ score_call.cost_score <= 100
          /\ score_call.market_average = 0 => score_call.cost_score = 50
    /\ score_call.total_score # NoScore =>
          /\ score_call.total_score =
                 3 * score_call.cost_score + 4 * score_call.quality_score
                     + 2 * score_call.speed_score + score_call.load_score
          /\ score_call.total_score >= 0
          /\ score_call.total_score <= 1000

\* a provider score computed from an estimate of more than twice the market
\* average, whose cost-efficiency score the cut to [0, 1] brings to 0
C25_Witness ==
    /\ score_call.total_score # NoScore
    /\ score_call.market_average > 0
    /\ score_call.estimated_cost > 2 * score_call.market_average
    /\ score_call.cost_score = 0

\* C26: a POST /generate request whose estimated cost exceeds the user's
\* balance is answered with status 402, not with 500, and no generation job
\* is started for it.
C26_InsufficientIs402 ==
    \A i \in 1..Len(endpoint.responses) :
        LET r == endpoint.responses[i]
        IN  r.user_balance < r.estimated_cost =>
                /\ r.status_code = PaymentRequired
                /\ r.job_id = NoId

\* C27: in the MCP billing flow, whatever the interleaving of the user's
\* concurrent calls, the user's credits never fall below 0, and a call whose
\* provider tool failed has deducted nothing.
C27_McpNeverNegative ==
    /\ mcp.credits >= 0
    /\ \A c \in McpCallIds :
           mcp.calls[c].pc = "raised" => mcp.calls[c].deducted = 0

\* C28: whenever a start request is answered with running or
\* already_running, the statuses that show the success toast, the status the
\* component takes is one for which the IDE iframe is rendered, which is
\* the case exactly for the status running.
C28_StartSuccessRendersIframe ==
    [][(iframe'.starts < iframe.starts
        /\ iframe'.start_result \in {"running", "already_running"})
           => iframe'.status = "running"]_vars

\* C29: a mounted component has at most one start request in flight and at
\* most one status-polling interval active, however often its effect
\* re-runs.
C29_OneStartOneInterval ==
    iframe.life = "mounted" =>
        /\ iframe.starts <= 1
        /\ iframe.intervals <= 1

\* C30: onReady is invoked only by a mounted component whose status is
\* running, whatever the order of start, stop, restart, the 2-second timer,
\* polling and unmount.
C30_ReadyOnlyWhenRunning == iframe.ready \in {"none", "running"}

====
